---- MODULE Spec2Model ----
(***************************************************************************)
(* Model of the migration engine of filestore-migrator (methods.go):       *)
(* candidate selection (getFiles), the three operating modes MigrateStore, *)
(* DownloadAll and UploadAll with their goroutines and unbuffered          *)
(* channels, and the path / record policy (getObjectPath,                  *)
(* fixFileForUpload).                                                      *)
(*                                                                         *)
(* External collaborators (storage providers, the catalog database, the   *)
(* local filesystem) are modelled by the outcomes they can return, chosen  *)
(* nondeterministically at the step that calls them.                       *)
(***************************************************************************)
EXTENDS Integers, Sequences, FiniteSets, TLC

\* ------------------------------------------------------------------ bounds
MaxFiles == 3          \* most records in the catalog (concurrency family)
MaxConc == 2           \* largest MAX_CONCURRENCY value tried
MaxRuns == 2           \* invocations of the tool on the same catalog

\* --------------------------------------------------------------- vocabulary
Nil == "nil"
StoreTypes == {"AmazonS3", "GoogleCloudStorage", "FileSystem", "GridFS"}
StoreNames == {"Uploads", "Avatars"}
Modes == {"MigrateStore", "DownloadAll", "UploadAll"}

\* The empty value of a kind-specific sub-document (rocketchat.AmazonS3{},
\* rocketchat.GoogleStorage{}); in a stored document it stands for "absent".
NoPath == << >>

\* (*GridFSProvider).StoreType and its siblings: the provider bound to a role
\* is represented by the string its StoreType() returns.
StoreType(provider) == provider

\* strings.ToLower on the two store names.
ToLower(s) ==
    CASE s = "Uploads" -> "uploads"
      [] s = "Avatars" -> "avatars"
      [] OTHER -> s

\* MAX_CONCURRENCY in the process environment: unset, or a text that is
\* either the decimal form of an integer n or not a number at all.
EnvUnset == [set |-> FALSE, isInt |-> FALSE, n |-> 0]
EnvInt(k) == [set |-> TRUE, isInt |-> TRUE, n |-> k]
EnvJunk == [set |-> TRUE, isInt |-> FALSE, n |-> 0]
EnvValues == {EnvUnset, EnvJunk} \cup {EnvInt(k) : k \in (0 - 1)..MaxConc}

\* Mutant of Atoi: a text that is no number is read as 0, without an error.
AtoiLenient(v) == [err |-> FALSE, n |-> v.n]

\* strconv.Atoi: the integer and no error for a decimal text, an error else.
Atoi(v) == IF v.isInt THEN [err |-> FALSE, n |-> v.n] ELSE [err |-> TRUE, n |-> 0]

VARIABLES
    mode,            \* which exported method this invocation calls
    m,               \* the Migrate object's fields
    env,             \* MAX_CONCURRENCY
    catalog,         \* the file collection: record id -> stored document
    files,           \* result of getFiles
    maxConcurrency,  \* maxConcurrency / maxRun
    mainPc,          \* position of the calling goroutine
    idx,             \* number of loop iterations begun (i of the range loop)
    ret,             \* what the call returned: "none", "nil" or an error
    listener,        \* the error-listener goroutine
    wpc,             \* position of the worker goroutine of each file
    wfile,           \* each worker's private copy of its file
    wres,            \* what each record's fetch / push / update returned
    updates,         \* record id -> catalog updates applied in this run
    run,             \* invocation number
    rewritten        \* ids whose descriptor an earlier run had rewritten
                     \* when this run selected its candidates

vars == << mode, m, env, catalog, files, maxConcurrency, mainPc, idx, ret,
           listener, wpc, wfile, wres, updates, run, rewritten >>

\* --------------------------------------------------------------- the catalog
\* "kind:storeName", the backend descriptor, kept as the pair it is built of.
Descriptor(kind, storeName) == << kind, storeName >>

\* "/ufs/kind:storeName/id/name", the served path.
UfsPath(kind, storeName, id, name) == << "ufs", kind, storeName, id, name >>

\* A stored document as the surrounding application writes it: the sub-field
\* of its own backend populated, the other one absent.
Doc(id, kind, storeName, uid, rid, complete) ==
    [ ID |-> id, Name |-> "name", Type |-> "type", UserID |-> uid, Rid |-> rid,
      Complete |-> complete, UploadedAt |-> id,
      Store |-> Descriptor(kind, storeName),
      AmazonS3 |-> IF kind = "AmazonS3" THEN << "bucket", id >> ELSE NoPath,
      GoogleStorage |-> IF kind = "GoogleCloudStorage" THEN << "bucket", id >> ELSE NoPath,
      URL |-> UfsPath(kind, storeName, id, "name"),
      Path |-> UfsPath(kind, storeName, id, "name") ]

\* Catalogs of the concurrency family: n records of one backend, at most one
\* of them with its upload incomplete.
ConcurrencyCatalogs ==
    { [ id \in 1..n |-> Doc(id, "AmazonS3", "Uploads", "u", "r", id # inc) ] :
        n \in 0..MaxFiles, inc \in 0..MaxFiles }

\* Catalogs of the policy family: the collection of category sn holding two
\* records of some backend,
\* the first with an empty or set user and room id.
PolicyCatalogs(sn) ==
    { [ id \in 1..2 |-> IF id = 1 THEN Doc(1, k, sn, uid, rid, TRUE)
                                  ELSE Doc(2, k, sn, "u", "r", TRUE) ] :
        k \in StoreTypes, uid \in {"", "u"}, rid \in {"", "r"} }

\* -------------------------------------------------------------------- Init
\* Names a caller may hand to SetStoreName.
RequestedNames == {"", "Uploads", "Avatars", "Emoji"}

\* SetStoreName: m.storeName after the call on a Migrate whose storeName was
\* old; a name other than the two store names is refused and changes nothing.
SetStoreName(old, name) ==
    IF name # "Uploads" /\ name # "Avatars" THEN old ELSE name

\* State before the call: the Migrate object configured, nothing running.
Idle ==
    /\ files = << >>
    /\ maxConcurrency = 1
    /\ mainPc = "start"
    /\ idx = 0
    /\ ret = "none"
    /\ listener = "none"
    /\ wpc = << >>
    /\ wfile = << >>
    /\ wres = << >>
    /\ updates = [ id \in DOMAIN catalog |-> 0 ]

\* Every concurrency limit, list length and skip policy, one pair of backends.
InitConcurrency ==
    /\ mode \in Modes
    /\ m \in [ sourceStore : {"AmazonS3"}, destinationStore : {"GoogleCloudStorage"},
               storeName : {"Uploads"}, skipErrors : BOOLEAN,
               fileOffset : {0}, fileCollectionName : {""}, uniqueID : {""} ]
    /\ env \in EnvValues
    /\ catalog \in ConcurrencyCatalogs

\* Every binding of the two roles, every store name and offset, default limit.
InitPolicy ==
    /\ mode \in Modes
    /\ m \in [ sourceStore : StoreTypes \cup {Nil},
               destinationStore : StoreTypes \cup {Nil},
               storeName : { SetStoreName("", n) : n \in RequestedNames },
               skipErrors : {FALSE},
               fileOffset : {0, 2}, fileCollectionName : {""}, uniqueID : {""} ]
    /\ env = EnvUnset
    /\ catalog \in PolicyCatalogs(IF m.storeName = "" THEN "Uploads" ELSE m.storeName)

Init ==
    /\ InitConcurrency \/ InitPolicy
    /\ run = 1
    /\ rewritten = {}
    /\ Idle

\* ---------------------------------------------------------------- getFiles
\* What the database calls of getFiles can return: connectDB, the uniqueID
\* FindOne, collection.Find and cursor.All each succeed or fail; Find may
\* also fail with mongo.ErrNoDocuments.
DbOutcomes == {"ok", "connectErr", "settingsErr", "ErrNoDocuments", "findErr", "cursorErr"}

\* Mutant of Matches: the query without its filter on the store descriptor.
MatchesIgnoringStore(doc) ==
    m.fileOffset # 0 => doc.UploadedAt >= m.fileOffset

\* The query of getFiles: store = "sourceKind:storeName", and uploadedAt >=
\* fileOffset when an offset is set.
Matches(doc) ==
    /\ doc.Store = Descriptor(StoreType(m.sourceStore), m.storeName)
    /\ (m.fileOffset # 0 => doc.UploadedAt >= m.fileOffset)

\* The records of a set of ids as a sequence in id order (cursor order).
RECURSIVE InOrder(_)
InOrder(ids) ==
    IF ids = {} THEN << >>
    ELSE LET lo == CHOOSE x \in ids : \A y \in ids : x <= y
         IN  << catalog[lo] >> \o InOrder(ids \ {lo})

FileCollection(storeName) ==
    CASE storeName = "Uploads" -> "rocketchat_uploads"
      [] storeName = "Avatars" -> "rocketchat_avatars"
      [] OTHER -> ""

\* getFiles under database outcome db: an error, a nil-pointer panic when
\* m.sourceStore is unbound (its StoreType() is called unconditionally),
\* or the matching records; an empty match is a result, not an error.
GetFiles(db) ==
    IF m.storeName = "" THEN [ kind |-> "err", err |-> "no store Name", files |-> << >> ]
    ELSE IF FileCollection(m.storeName) = ""
         THEN [ kind |-> "err", err |-> "Invalid store Name", files |-> << >> ]
    ELSE IF db \in {"connectErr", "settingsErr"}
         THEN [ kind |-> "err", err |-> db, files |-> << >> ]
    ELSE IF m.sourceStore = Nil
         THEN [ kind |-> "panic", err |-> "nil dereference", files |-> << >> ]
    ELSE IF db = "ErrNoDocuments"
         THEN [ kind |-> "err", err |-> "No files found", files |-> << >> ]
    ELSE IF db \in {"findErr", "cursorErr"}
         THEN [ kind |-> "err", err |-> db, files |-> << >> ]
    ELSE [ kind |-> "ok", err |-> "",
           files |-> InOrder({ id \in DOMAIN catalog : Matches(catalog[id]) }) ]

\* Fields of m that getFiles assigns before it returns.
AfterGetFiles(db) ==
    IF m.storeName = "" \/ FileCollection(m.storeName) = "" THEN m
    ELSE IF db \in {"connectErr", "settingsErr"}
         THEN [ m EXCEPT !.fileCollectionName = FileCollection(m.storeName) ]
    ELSE [ m EXCEPT !.fileCollectionName = FileCollection(m.storeName),
                    !.uniqueID = "uniqueID" ]

\* ------------------------------------------------------ path / record policy
\* getObjectPath: the destination path, as the tuple of its "/"-separated parts.
getObjectPath(file) ==
    IF StoreType(m.destinationStore) = "FileSystem" THEN << file.ID >>
    ELSE CASE m.storeName = "Uploads" ->
                << m.uniqueID, ToLower(m.storeName), file.Rid, file.UserID, file.ID >>
           [] m.storeName = "Avatars" ->
                << m.uniqueID, ToLower(m.storeName), file.UserID >>
           [] OTHER -> NoPath

\* The name of the sub-field fixFileForUpload returns for $unset ("" = none).
UnsetFor(kind) ==
    CASE kind = "AmazonS3" -> "GoogleStorage"
      [] kind = "GoogleCloudStorage" -> "AmazonS3"
      [] OTHER -> ""

\* fixFileForUpload: the file as it leaves the function.
fixFileForUpload(file, objectPath) ==
    LET kind == StoreType(m.destinationStore)
        sub  == CASE kind = "AmazonS3" ->
                       [ file EXCEPT !.AmazonS3 = objectPath, !.GoogleStorage = NoPath ]
                  [] kind = "GoogleCloudStorage" ->
                       [ file EXCEPT !.GoogleStorage = objectPath, !.AmazonS3 = NoPath ]
                  [] OTHER -> file
    IN  [ sub EXCEPT !.URL = UfsPath(kind, m.storeName, file.ID, file.Name),
                     !.Path = UfsPath(kind, m.storeName, file.ID, file.Name),
                     !.Store = Descriptor(kind, m.storeName) ]

\* The "undefined" defaults MigrateStore writes into its copy of the file
\* between the fetch and the push.
WithDefaults(file) ==
    [ file EXCEPT
        !.Rid = IF file.Rid = "" /\ m.storeName = "Uploads" THEN "undefined" ELSE file.Rid,
        !.UserID = IF file.UserID = "" THEN "undefined" ELSE file.UserID ]

\* collection.UpdateOne({_id: file.ID}, {$set: file, $unset: {unset: 1}}) on
\* the stored document doc: every field of file is written, except that an
\* empty sub-document is omitted from $set; then the unset field is removed.
ApplyUpdate(doc, file, unset) ==
    [ file EXCEPT
        !.ID = doc.ID,
        !.AmazonS3 = IF unset = "AmazonS3" THEN NoPath
                     ELSE IF file.AmazonS3 # NoPath THEN file.AmazonS3 ELSE doc.AmazonS3,
        !.GoogleStorage = IF unset = "GoogleStorage" THEN NoPath
                          ELSE IF file.GoogleStorage # NoPath THEN file.GoogleStorage
                          ELSE doc.GoogleStorage ]

\* -------------------------------------------------------------- run state
\* What is known of a record's steps: the results of its fetch, push and
\* update, the destination path handed to the push, and what os.Stat found
\* of its staged file (UploadAll).
NoResult == [ fetch |-> "none", push |-> "none", update |-> "none",
              path |-> NoPath, staged |-> "none" ]

\* The process is dead: a goroutine panicked.
Crashed == mainPc = "crashed" \/ listener = "panicked"

\* The call is over, by return or by a crash of the process.
Ended == mainPc = "returned" \/ Crashed

Workers == DOMAIN wpc

\* A worker is in flight from its launch to the end of its last
\* fetch / push / update step.
InFlight(w) == wpc[w] \in {"fetch", "push", "update"}

\* sync.WaitGroup counter of DownloadAll: Add(1) at launch, Done at exit.
WgCount == Cardinality({ w \in Workers : wpc[w] \notin {"unlaunched", "finished"} })

ReturnWith(e) ==
    /\ mainPc' = "returned"
    /\ ret' = e

\* State on entry to the scheduling loop of MigrateStore / DownloadAll.
EnterLoop(fs, n) ==
    /\ files' = fs
    /\ maxConcurrency' = n
    /\ mainPc' = "loop"
    /\ listener' = "waiting"
    /\ wpc' = [ w \in 1..Len(fs) |-> "unlaunched" ]
    /\ wfile' = fs
    /\ wres' = [ w \in 1..Len(fs) |-> NoResult ]

\* ------------------------------------------------------------ entry points
\* MigrateStore up to the scheduling loop: binding check, getFiles, parse of
\* MAX_CONCURRENCY, creation of the channels and the listener goroutine.
MigrateStoreBegin ==
    /\ mode = "MigrateStore" /\ mainPc = "start"
    /\ \E db \in DbOutcomes :
         IF m.sourceStore = Nil \/ m.destinationStore = Nil
         THEN /\ ReturnWith("both a source and destination store must be provided")
              /\ UNCHANGED << m, files, maxConcurrency, listener, wpc, wfile, wres >>
         ELSE LET r == GetFiles(db) IN
              /\ m' = AfterGetFiles(db)
              /\ IF r.kind = "err"
                 THEN /\ ReturnWith(r.err)
                      /\ UNCHANGED << files, maxConcurrency, listener, wpc, wfile, wres >>
                 ELSE IF env.set /\ Atoi(env).err
                 THEN /\ ReturnWith("strconv.Atoi")
                      /\ files' = r.files
                      /\ UNCHANGED << maxConcurrency, listener, wpc, wfile, wres >>
                 ELSE /\ EnterLoop(r.files, IF env.set THEN Atoi(env).n ELSE 1)
                      /\ UNCHANGED ret
    /\ UNCHANGED << mode, env, catalog, idx, updates, run, rewritten >>

\* DownloadAll up to its scheduling loop.
DownloadAllBegin ==
    /\ mode = "DownloadAll" /\ mainPc = "start"
    /\ \E db \in DbOutcomes :
         IF m.sourceStore = Nil
         THEN /\ ReturnWith("must have a source store provided")
              /\ UNCHANGED << m, files, maxConcurrency, listener, wpc, wfile, wres >>
         ELSE LET r == GetFiles(db) IN
              /\ m' = AfterGetFiles(db)
              /\ IF r.kind = "err"
                 THEN /\ ReturnWith(r.err)
                      /\ UNCHANGED << files, maxConcurrency, listener, wpc, wfile, wres >>
                 ELSE IF env.set /\ Atoi(env).err
                 THEN /\ ReturnWith("strconv.Atoi")
                      /\ files' = r.files
                      /\ UNCHANGED << maxConcurrency, listener, wpc, wfile, wres >>
                 ELSE /\ EnterLoop(r.files, IF env.set THEN Atoi(env).n ELSE 1)
                      /\ UNCHANGED ret
    /\ UNCHANGED << mode, env, catalog, idx, updates, run, rewritten >>

\* UploadAll up to its loop.
UploadAllBegin ==
    /\ mode = "UploadAll" /\ mainPc = "start"
    /\ \E db \in DbOutcomes :
         IF m.destinationStore = Nil
         THEN /\ ReturnWith("must have a destination store provided")
              /\ UNCHANGED << m, files, wfile, wres >>
         ELSE LET r == GetFiles(db) IN
              /\ m' = AfterGetFiles(db)
              /\ CASE r.kind = "err" ->
                        /\ ReturnWith(r.err)
                        /\ UNCHANGED << files, wfile, wres >>
                   [] r.kind = "panic" ->
                        /\ mainPc' = "crashed"
                        /\ UNCHANGED << ret, files, wfile, wres >>
                   [] OTHER ->
                        /\ mainPc' = "upload"
                        /\ files' = r.files
                        /\ wfile' = r.files
                        /\ wres' = [ w \in 1..Len(r.files) |-> NoResult ]
                        /\ UNCHANGED ret
    /\ UNCHANGED << mode, env, catalog, maxConcurrency, idx, listener, wpc,
                    updates, run, rewritten >>

\* ------------------------------------------- scheduling loop (both modes)
\* The loop's only wait: at the iteration whose index equals the limit.
MustWait == idx = maxConcurrency

\* `<-oneDone` inside the loop: one worker's completion signal is received.
MainWait ==
    /\ ~Crashed /\ mainPc = "loop" /\ idx < Len(files) /\ MustWait
    /\ \E w \in Workers :
         /\ wpc[w] = "sendDone"
         /\ wpc' = [ wpc EXCEPT ![w] = "finished" ]
    /\ mainPc' = "launch"
    /\ UNCHANGED << mode, m, env, catalog, files, maxConcurrency, idx, ret,
                    listener, wfile, wres, updates, run, rewritten >>

\* `go func(...)`: the worker of the next file is started.
MainLaunch ==
    /\ ~Crashed
    /\ \/ mainPc = "loop" /\ idx < Len(files) /\ ~MustWait
       \/ mainPc = "launch"
    /\ wpc' = [ wpc EXCEPT ![idx + 1] = "fetch" ]
    /\ idx' = idx + 1
    /\ mainPc' = "loop"
    /\ UNCHANGED << mode, m, env, catalog, files, maxConcurrency, ret,
                    listener, wfile, wres, updates, run, rewritten >>

\* MigrateStore after the loop: `<-oneDone`, one completion signal.
MainFinalWait ==
    /\ ~Crashed /\ mode = "MigrateStore" /\ mainPc = "loop" /\ idx = Len(files)
    /\ \E w \in Workers :
         /\ wpc[w] = "sendDone"
         /\ wpc' = [ wpc EXCEPT ![w] = "finished" ]
    /\ mainPc' = "sendNil"
    /\ UNCHANGED << mode, m, env, catalog, files, maxConcurrency, idx, ret,
                    listener, wfile, wres, updates, run, rewritten >>

\* MigrateStore: `errChan <- nil` is taken by the listener, which returns;
\* the call returns nil.
MainSendNil ==
    /\ ~Crashed /\ mainPc = "sendNil" /\ listener = "waiting"
    /\ listener' = "exited"
    /\ ReturnWith("nil")
    /\ UNCHANGED << mode, m, env, catalog, files, maxConcurrency, idx,
                    wpc, wfile, wres, updates, run, rewritten >>

\* DownloadAll after the loop: wg.Wait(), then return nil.
MainWgWait ==
    /\ ~Crashed /\ mode = "DownloadAll" /\ mainPc = "loop" /\ idx = Len(files)
    /\ WgCount = 0
    /\ ReturnWith("nil")
    /\ UNCHANGED << mode, m, env, catalog, files, maxConcurrency, idx, listener,
                    wpc, wfile, wres, updates, run, rewritten >>

\* ------------------------------------------------------------------ workers
FetchOutcomes == {"ok", "notfound", "err"}
CallOutcomes == {"ok", "err"}

\* Mutant of Eligible: the completion flag is not looked at.
EligibleAlways(file) == TRUE

\* The completion-flag test every mode makes before it touches a record.
Eligible(file) == file.Complete

\* Mutants of Tolerated: one half of the disjunction is dropped.
ToleratedByFlagOnly(out) == m.skipErrors

ToleratedNotFoundOnly(out) == out = "notfound"

\* `err == store.ErrNotFound || m.skipErrors`: the failed fetch is skipped.
Tolerated(out) == out = "notfound" \/ m.skipErrors

SetRes(w, step, out) == [ wres EXCEPT ![w][step] = out ]

\* Worker of MigrateStore / DownloadAll: the completion-flag test and
\* sourceStore.Download.
WorkerFetch(w) ==
    /\ ~Crashed /\ wpc[w] = "fetch"
    /\ IF ~Eligible(wfile[w])
       THEN /\ wpc' = [ wpc EXCEPT ![w] = "sendDone" ]
            /\ UNCHANGED << wfile, wres >>
       ELSE \E out \in FetchOutcomes :
              /\ wres' = SetRes(w, "fetch", out)
              /\ IF out = "ok"
                 THEN IF mode = "MigrateStore"
                      THEN /\ wfile' = [ wfile EXCEPT ![w] = WithDefaults(@) ]
                           /\ wpc' = [ wpc EXCEPT ![w] = "push" ]
                      ELSE /\ wpc' = [ wpc EXCEPT ![w] = "sendDone" ]
                           /\ UNCHANGED wfile
                 ELSE /\ wpc' = [ wpc EXCEPT ![w] =
                                    IF Tolerated(out) THEN "sendDone" ELSE "sendErr" ]
                      /\ UNCHANGED wfile
    /\ UNCHANGED << mode, m, env, catalog, files, maxConcurrency, mainPc, idx,
                    ret, listener, updates, run, rewritten >>

\* Mutant of AfterPush: the error of Upload is not acted on.
AfterPushIgnoringError(out) == "update"

\* Where the worker goes after destinationStore.Upload: on to the catalog
\* update, or to `errChan <- err; return`.
AfterPush(out) == IF out = "ok" THEN "update" ELSE "sendErr"

\* Worker of MigrateStore: destinationStore.Upload, then fixFileForUpload.
WorkerPush(w) ==
    /\ ~Crashed /\ wpc[w] = "push"
    /\ \E out \in CallOutcomes :
         /\ wres' = [ wres EXCEPT ![w].push = out, ![w].path = getObjectPath(wfile[w]) ]
         /\ wpc' = [ wpc EXCEPT ![w] = AfterPush(out) ]
         /\ wfile' = IF out = "ok"
                     THEN [ wfile EXCEPT ![w] = fixFileForUpload(@, getObjectPath(@)) ]
                     ELSE wfile
    /\ UNCHANGED << mode, m, env, catalog, files, maxConcurrency, mainPc, idx,
                    ret, listener, updates, run, rewritten >>

\* Mutant of UpdateKey: the worker reads the loop's variable instead of its
\* own copy, and finds the last file there.
UpdateKeyOfLoopVariable(file) == files[Len(files)].ID

\* bson.M{"_id": file.ID}: the filter of UpdateOne.
UpdateKey(file) == file.ID

\* Worker of MigrateStore: collection.UpdateOne keyed by the file's id.
WorkerUpdate(w) ==
    /\ ~Crashed /\ wpc[w] = "update"
    /\ \E out \in CallOutcomes :
         /\ wres' = SetRes(w, "update", out)
         /\ IF out = "ok"
            THEN LET id == UpdateKey(wfile[w]) IN
                 /\ catalog' = [ catalog EXCEPT ![id] =
                       ApplyUpdate(@, wfile[w], UnsetFor(StoreType(m.destinationStore))) ]
                 /\ updates' = [ updates EXCEPT ![id] = @ + 1 ]
                 /\ wpc' = [ wpc EXCEPT ![w] = "sendDone" ]
            ELSE /\ wpc' = [ wpc EXCEPT ![w] = "sendErr" ]
                 /\ UNCHANGED << catalog, updates >>
    /\ UNCHANGED << mode, m, env, files, maxConcurrency, mainPc, idx,
                    ret, listener, wfile, run, rewritten >>

\* `errChan <- err` is taken by the listener, which panics: the process dies.
WorkerSendErr(w) ==
    /\ ~Crashed /\ wpc[w] = "sendErr" /\ listener = "waiting"
    /\ listener' = "panicked"
    /\ wpc' = [ wpc EXCEPT ![w] = "finished" ]
    /\ UNCHANGED << mode, m, env, catalog, files, maxConcurrency, mainPc, idx,
                    ret, wfile, wres, updates, run, rewritten >>

\* ---------------------------------------------------------------- UploadAll
\* What os.Stat of the staged file finds.
StatOutcomes == {"present", "absent"}

\* Mutant of IsNotExist: a missing staged file goes unnoticed.
IsNotExistNever(staged) == FALSE

\* os.IsNotExist(err) on the result of os.Stat.
IsNotExist(staged) == staged = "absent"

\* One iteration up to the push: os.Stat of the staged file, then the
\* completion-flag test.
UploadStat ==
    /\ mainPc = "upload" /\ idx < Len(files)
    /\ \E staged \in StatOutcomes :
         /\ wres' = SetRes(idx + 1, "staged", staged)
         /\ IF IsNotExist(staged) \/ ~Eligible(wfile[idx + 1])
            THEN /\ idx' = idx + 1
                 /\ UNCHANGED mainPc
            ELSE /\ mainPc' = "upPush"
                 /\ UNCHANGED idx
    /\ UNCHANGED << mode, m, env, catalog, files, maxConcurrency, ret, listener,
                    wpc, wfile, updates, run, rewritten >>

\* destinationStore.Upload, then fixFileForUpload; a failure is returned.
UploadPush ==
    /\ mainPc = "upPush"
    /\ \E out \in CallOutcomes :
         /\ wres' = [ wres EXCEPT ![idx + 1].push = out,
                                  ![idx + 1].path = getObjectPath(wfile[idx + 1]) ]
         /\ IF out = "ok"
            THEN /\ wfile' = [ wfile EXCEPT ![idx + 1] = fixFileForUpload(@, getObjectPath(@)) ]
                 /\ mainPc' = "upUpdate"
                 /\ UNCHANGED ret
            ELSE /\ ReturnWith("upload failed")
                 /\ UNCHANGED wfile
    /\ UNCHANGED << mode, m, env, catalog, files, maxConcurrency, idx, listener,
                    wpc, updates, run, rewritten >>

\* collection.UpdateOne; a failure is returned, else the loop goes on.
UploadUpdate ==
    /\ mainPc = "upUpdate"
    /\ \E out \in CallOutcomes :
         /\ wres' = SetRes(idx + 1, "update", out)
         /\ IF out = "ok"
            THEN LET id == wfile[idx + 1].ID IN
                 /\ catalog' = [ catalog EXCEPT ![id] =
                       ApplyUpdate(@, wfile[idx + 1], UnsetFor(StoreType(m.destinationStore))) ]
                 /\ updates' = [ updates EXCEPT ![id] = @ + 1 ]
                 /\ idx' = idx + 1
                 /\ mainPc' = "upload"
                 /\ UNCHANGED ret
            ELSE /\ ReturnWith("update failed")
                 /\ UNCHANGED << catalog, updates, idx >>
    /\ UNCHANGED << mode, m, env, files, maxConcurrency, listener, wpc, wfile,
                    run, rewritten >>

\* End of the loop: return nil.
UploadFinish ==
    /\ mainPc = "upload" /\ idx = Len(files)
    /\ ReturnWith("nil")
    /\ UNCHANGED << mode, m, env, catalog, files, maxConcurrency, idx, listener,
                    wpc, wfile, wres, updates, run, rewritten >>

\* ------------------------------------------------------------------ re-run
\* The tool is invoked again, as a new process, with the same configuration
\* on the catalog as the ended invocation left it.
Rerun ==
    /\ Ended /\ run < MaxRuns
    /\ run' = run + 1
    /\ rewritten' = rewritten \cup { id \in DOMAIN catalog : updates[id] > 0 }
    /\ m' = [ m EXCEPT !.fileCollectionName = "", !.uniqueID = "" ]
    /\ files' = << >>
    /\ maxConcurrency' = 1
    /\ mainPc' = "start"
    /\ idx' = 0
    /\ ret' = "none"
    /\ listener' = "none"
    /\ wpc' = << >>
    /\ wfile' = << >>
    /\ wres' = << >>
    /\ updates' = [ id \in DOMAIN catalog |-> 0 ]
    /\ UNCHANGED << mode, env, catalog >>

Next ==
    \/ MigrateStoreBegin
    \/ DownloadAllBegin
    \/ UploadAllBegin
    \/ MainWait
    \/ MainLaunch
    \/ MainFinalWait
    \/ MainSendNil
    \/ MainWgWait
    \/ \E w \in Workers : WorkerFetch(w)
    \/ \E w \in Workers : WorkerPush(w)
    \/ \E w \in Workers : WorkerUpdate(w)
    \/ \E w \in Workers : WorkerSendErr(w)
    \/ UploadStat
    \/ UploadPush
    \/ UploadUpdate
    \/ UploadFinish
    \/ Rerun

Spec == Init /\ [][Next]_vars

\* The steps of the calling goroutine.
MainStep ==
    \/ MigrateStoreBegin \/ DownloadAllBegin \/ UploadAllBegin
    \/ MainWait \/ MainLaunch \/ MainFinalWait \/ MainSendNil \/ MainWgWait
    \/ UploadStat \/ UploadPush \/ UploadUpdate \/ UploadFinish

\* The steps of the worker goroutine of file w.
WorkerStep(w) ==
    \/ WorkerFetch(w) \/ WorkerPush(w) \/ WorkerUpdate(w) \/ WorkerSendErr(w)

\* The Go scheduler runs every goroutine that can run: the calling goroutine
\* and each worker take their next step when it stays possible.  Nothing
\* obliges anyone to invoke the tool again.
FairSpec ==
    /\ Spec
    /\ WF_vars(MainStep)
    /\ \A w \in 1..MaxFiles : WF_vars(w \in Workers /\ WorkerStep(w))

\* =================================================================== claims
NumInFlight == Cardinality({ w \in Workers : InFlight(w) })

\* A failure that the error policy makes fatal: a failed push, a failed
\* catalog update, or a fetch failed for another cause than not-found while
\* the skip-policy flag is unset.
FatalFailure(w) ==
    \/ wres[w].push = "err"
    \/ wres[w].update = "err"
    \/ wres[w].fetch = "err" /\ ~m.skipErrors

\* The worker has signalled (or is signalling) completion, not an error.
SignalsDone(w) == wpc[w] \in {"sendDone", "finished"}

\* C1: in MigrateStore and DownloadAll, for every limit N >= 1, the number of
\* workers in flight is at most N at every instant.
C1_AtMostNInFlight ==
    (mode \in {"MigrateStore", "DownloadAll"} /\ maxConcurrency >= 1)
        => NumInFlight <= maxConcurrency

\* C2: MigrateStore never returns nil in a run in which a fatal failure has
\* happened: the step that returns nil is not taken once some record's push
\* or update has failed, or its fetch has failed fatally (stated for the
\* limits N >= 1).
C2_NoSuccessAfterFatal ==
    [][ (mode = "MigrateStore" /\ maxConcurrency >= 1 /\ mainPc # "returned"
            /\ mainPc' = "returned" /\ ret' = "nil")
        => \A w \in Workers : ~FatalFailure(w) ]_vars

\* C3: when MigrateStore has returned success, no worker is still fetching,
\* pushing or updating the catalog (stated for the limits N >= 1).
C3_DrainedOnSuccess ==
    (mode = "MigrateStore" /\ maxConcurrency >= 1 /\ mainPc = "returned" /\ ret = "nil")
        => \A w \in Workers : ~InFlight(w) /\ wpc[w] # "unlaunched"

\* C4: a fetch that fails with not-found never aborts the run, with the skip
\* flag set or unset: its record is skipped (completion signalled, no push,
\* no catalog update), and when the run does abort, the cause is another
\* record's fatal failure.
C4_NotFoundNeverAborts ==
    mode \in {"MigrateStore", "DownloadAll"} =>
        /\ \A w \in Workers : wres[w].fetch = "notfound" =>
              /\ SignalsDone(w)
              /\ wres[w].push = "none" /\ wres[w].update = "none"
              /\ updates[files[w].ID] = 0
              /\ catalog[files[w].ID] = files[w]
        /\ listener = "panicked" =>
              \E v \in Workers : wres[v].fetch # "notfound" /\ FatalFailure(v)

C4_Witness ==
    /\ mode = "MigrateStore" /\ ~m.skipErrors /\ ~Crashed
    /\ \E w, v \in Workers :
         /\ wres[w].fetch = "notfound" /\ wpc[w] = "finished"
         /\ w < v /\ wres[v].update = "ok"

\* C5 as stated: with the skip flag set, every failed fetch and every failed
\* push is tolerated (completion signalled, no catalog update).
C5_PushFailureTolerated ==
    (mode = "MigrateStore" /\ m.skipErrors) =>
        \A w \in Workers : (wres[w].fetch = "err" \/ wres[w].push = "err") =>
            SignalsDone(w) /\ wres[w].update = "none"

\* C5 as amended: with the skip flag set, every failed fetch is tolerated
\* (completion signalled, no push, no catalog update, never the cause of an
\* abort), while a failed push stays fatal: its worker raises the error.
C5_FetchFailureTolerated ==
    (mode = "MigrateStore" /\ m.skipErrors) =>
        /\ \A w \in Workers : wres[w].fetch \in {"err", "notfound"} =>
              /\ SignalsDone(w)
              /\ wres[w].push = "none" /\ wres[w].update = "none"
              /\ updates[files[w].ID] = 0
        /\ \A w \in Workers : wres[w].push = "err" =>
              /\ wres[w].update = "none"
              /\ wpc[w] = "sendErr" \/ (wpc[w] = "finished" /\ listener = "panicked")
        /\ listener = "panicked" =>
              \E v \in Workers : wres[v].push = "err" \/ wres[v].update = "err"

C5_Witness ==
    /\ mode = "MigrateStore" /\ m.skipErrors
    /\ \E w, v \in Workers :
         /\ wres[w].fetch = "err" /\ wpc[w] = "finished"
         /\ wres[v].push = "err" /\ listener = "panicked"

\* C6: in every mode, a candidate whose completion flag is false is never
\* fetched, never pushed and never updated, and raises no error.
C6_IncompleteUntouched ==
    /\ \A w \in DOMAIN wres : ~files[w].Complete =>
          /\ wres[w].fetch = "none" /\ wres[w].push = "none"
          /\ wres[w].update = "none" /\ wres[w].path = NoPath
          /\ updates[files[w].ID] = 0
          /\ catalog[files[w].ID] = files[w]
          /\ w \in Workers => wpc[w] \in {"unlaunched", "fetch", "sendDone", "finished"}
    /\ mainPc \in {"upPush", "upUpdate"} => files[idx + 1].Complete

C6_Witness ==
    \E w \in Workers :
        /\ ~files[w].Complete /\ wpc[w] = "finished"
        /\ \E v \in Workers : wres[v].update = "ok"

\* The kind-specific location sub-fields of a document that are populated.
Populated(doc) ==
    { f \in {"AmazonS3", "GoogleStorage"} : doc[f] # NoPath }

\* The sub-field that belongs to a backend kind (none for the kinds that
\* keep no location sub-document).
OwnSubFields(kind) ==
    CASE kind = "AmazonS3" -> {"AmazonS3"}
      [] kind = "GoogleCloudStorage" -> {"GoogleStorage"}
      [] OTHER -> {}

\* C7: a record that MigrateStore or UploadAll has migrated to kind K has,
\* in its stored document, K's sub-field populated and every other backend's
\* sub-field absent, the source backend's included.
C7_OnlyDestinationSubField ==
    mode \in {"MigrateStore", "UploadAll"} =>
        \A id \in DOMAIN catalog : updates[id] > 0 =>
            Populated(catalog[id]) = OwnSubFields(StoreType(m.destinationStore))

\* C8: the catalog update of MigrateStore leaves the display name, content
\* type, user id, room id, completion flag and upload timestamp of a migrated
\* record as they were selected.
C8_OnlyLocationRewritten ==
    mode = "MigrateStore" =>
        \A w \in DOMAIN wres : updates[files[w].ID] > 0 =>
            LET d == catalog[files[w].ID]
                f == files[w]
            IN  /\ d.Name = f.Name /\ d.Type = f.Type
                /\ d.UserID = f.UserID /\ d.Rid = f.Rid
                /\ d.Complete = f.Complete /\ d.UploadedAt = f.UploadedAt

\* C9: a run whose candidate selection matches zero records ends with a
\* reported error: it neither enters its loop nor returns success.
C9_ZeroCandidatesIsError ==
    (mainPc \notin {"start", "crashed"} /\ Len(files) = 0) =>
        mainPc = "returned" /\ ret # "nil"

\* C10 as stated: for every pair of bindings, a second MigrateStore run with
\* no offset selects no record whose descriptor an earlier run rewrote.
C10_NoReselection ==
    (mode = "MigrateStore" /\ m.fileOffset = 0 /\ run > 1) =>
        \A w \in DOMAIN files : files[w].ID \notin rewritten

\* C10 as amended: the same, for bindings whose source kind differs from the
\* destination kind.
C10_NoReselectionAcrossKinds ==
    (mode = "MigrateStore" /\ m.fileOffset = 0 /\ run > 1
        /\ StoreType(m.sourceStore) # StoreType(m.destinationStore)) =>
        \A w \in DOMAIN files : files[w].ID \notin rewritten

C10_Witness ==
    /\ mode = "MigrateStore" /\ m.fileOffset = 0 /\ run > 1
    /\ StoreType(m.sourceStore) # StoreType(m.destinationStore)
    /\ rewritten # {}
    /\ mainPc = "loop" /\ Len(files) > 0

\* C11: under fair scheduling, every DownloadAll run over a non-empty
\* candidate list terminates, by a return or by the abort on a fatal failure.
C11_DownloadAllTerminates ==
    (mode = "DownloadAll" /\ run = 1 /\ mainPc = "loop" /\ Len(files) > 0
        /\ maxConcurrency >= 1)
        ~> Ended

\* C12: in MigrateStore, once a worker's fetch, push or update has failed
\* fatally, no further worker is launched (stated for the limits N >= 1).
C12_NoLaunchAfterFatal ==
    [][ (mode = "MigrateStore" /\ maxConcurrency >= 1
            /\ \E w \in Workers : FatalFailure(w))
        => ~(mainPc' = "loop" /\ idx' = idx + 1) ]_vars

\* C13: UploadAll with the destination bound and the source unbound does
\* not crash for lack of a source.
C13_UploadAllWithoutSource ==
    (mode = "UploadAll" /\ m.destinationStore # Nil /\ m.sourceStore = Nil)
        => mainPc # "crashed"

\* The run configurations C14 calls invalid.
InvalidConfig ==
    \/ mode = "MigrateStore" /\ (m.sourceStore = Nil \/ m.destinationStore = Nil)
    \/ mode = "DownloadAll" /\ m.sourceStore = Nil
    \/ mode = "UploadAll" /\ m.destinationStore = Nil
    \/ m.storeName \notin StoreNames
    \/ mode \in {"MigrateStore", "DownloadAll"} /\ env.set /\ ~env.isInt

\* C14: an invalid configuration is rejected with an error before any work:
\* the call returns an error, no worker is launched, and no fetch, push or
\* catalog update is performed.
C14_InvalidConfigRejected ==
    InvalidConfig =>
        /\ mainPc \in {"start", "returned"}
        /\ mainPc = "returned" => ret \notin {"nil", "none"}
        /\ wpc = << >>
        /\ \A w \in DOMAIN wres : wres[w] = NoResult
        /\ \A id \in DOMAIN catalog : updates[id] = 0

C14_Witness ==
    /\ mode = "MigrateStore" /\ env.set /\ ~env.isInt
    /\ mainPc = "returned" /\ ret = "strconv.Atoi"
    /\ Len(files) > 0

\* The destination path C15 requires for a candidate record: the record id
\* for a FileSystem destination, else the category's layout with an empty
\* room id (Uploads) and an empty user id written as "undefined".
PolicyPath(file) ==
    LET rid == IF file.Rid = "" THEN "undefined" ELSE file.Rid
        uid == IF file.UserID = "" THEN "undefined" ELSE file.UserID
    IN  IF StoreType(m.destinationStore) = "FileSystem" THEN << file.ID >>
        ELSE IF m.storeName = "Uploads"
             THEN << m.uniqueID, "uploads", rid, uid, file.ID >>
             ELSE << m.uniqueID, "avatars", uid >>

\* C15: in MigrateStore and in UploadAll, the path handed to every push is
\* the policy path of the record.
C15_PushPathIsPolicyPath ==
    \A w \in DOMAIN wres :
        wres[w].push # "none" => wres[w].path = PolicyPath(files[w])

\* C16: in UploadAll, a candidate whose staged file is absent is neither
\* pushed nor updated and its document is left as it was; the loop moves on
\* past it, a run that returns an error does so for the push or update of
\* another record, and a run that returns success has visited every record.
C16_AbsentStagedFileSkipped ==
    mode = "UploadAll" =>
        \A w \in DOMAIN wres :
            wres[w].staged = "absent" =>
                /\ wres[w].push = "none" /\ wres[w].update = "none"
                /\ updates[files[w].ID] = 0
                /\ catalog[files[w].ID] = files[w]
                /\ idx >= w
                /\ (mainPc = "returned" /\ ret # "nil") =>
                       \E v \in DOMAIN wres \ {w} :
                           wres[v].push = "err" \/ wres[v].update = "err"
                /\ (mainPc = "returned" /\ ret = "nil") =>
                       /\ idx = Len(files)
                       /\ \A v \in DOMAIN wres : wres[v].staged # "none"

C16_Witness ==
    /\ mode = "UploadAll" /\ mainPc = "returned" /\ ret = "nil"
    /\ 2 \in DOMAIN wres
    /\ wres[1].staged = "absent"
    /\ wres[2].staged = "present" /\ wres[2].update = "ok"

\* C17: in a MigrateStore run, each candidate's document is updated at most
\* once, exactly once when the record's fetch, push and update all succeeded,
\* and never by another record's worker: a candidate without a successful
\* update of its own still has the document that was read, and no document
\* outside the candidate list is updated.
C17_UpdatedOncePerRecord ==
    mode = "MigrateStore" =>
        /\ \A w \in DOMAIN wres :
             /\ updates[files[w].ID] = IF wres[w].update = "ok" THEN 1 ELSE 0
             /\ wres[w].update = "ok" => wres[w].fetch = "ok" /\ wres[w].push = "ok"
             /\ wres[w].update # "ok" => catalog[files[w].ID] = files[w]
        /\ \A id \in DOMAIN catalog :
             (\A w \in DOMAIN wres : files[w].ID # id) => updates[id] = 0

C17_Witness ==
    /\ mode = "MigrateStore" /\ maxConcurrency = 2 /\ 2 \in Workers
    /\ wres[1].update = "ok" /\ wres[2].update = "ok"
    /\ updates[files[1].ID] = 1 /\ updates[files[2].ID] = 1
    /\ wpc[1] = "sendDone" /\ wpc[2] = "sendDone"

\* C18: for each record of a MigrateStore run the steps are in the order
\* fetch, push, update: a push is made, or about to be made, only after the
\* record's fetch succeeded, and an update only after its push succeeded.
\* Steps of different records are not ordered (the witness).
C18_FetchPushUpdateInOrder ==
    mode = "MigrateStore" =>
        \A w \in DOMAIN wres :
            /\ wres[w].push # "none" => wres[w].fetch = "ok"
            /\ wres[w].update # "none" => wres[w].push = "ok"
            /\ wpc[w] = "push" => wres[w].fetch = "ok" /\ wres[w].push = "none"
            /\ wpc[w] = "update" => wres[w].push = "ok" /\ wres[w].update = "none"
            /\ wpc[w] \in {"unlaunched", "fetch"} => wres[w] = NoResult

\* Record 2 is fetched, pushed and updated while record 1, launched before
\* it, has not been fetched yet.
C18_Witness ==
    /\ mode = "MigrateStore" /\ 2 \in Workers
    /\ wpc[1] = "fetch" /\ wres[1].fetch = "none"
    /\ wres[2].fetch = "ok" /\ wres[2].push = "ok" /\ wres[2].update = "ok"

\* C19: under fair scheduling, every MigrateStore run over a non-empty
\* candidate list terminates, by a return or by the abort on a fatal failure,
\* for every limit that parses (0 and negative limits included).
C19_MigrateStoreTerminates ==
    (mode = "MigrateStore" /\ run = 1 /\ mainPc = "loop" /\ Len(files) > 0)
        ~> Ended

\* C20: under fair scheduling, every worker launched by a MigrateStore run
\* with a limit N >= 1 eventually finishes (its completion signal or its
\* error is taken), unless the process is gone first.
C20_EveryWorkerFinishes ==
    \A w \in 1..MaxFiles :
        (mode = "MigrateStore" /\ run = 1 /\ maxConcurrency >= 1
            /\ w \in Workers /\ wpc[w] = "fetch")
            ~> (Crashed \/ run > 1 \/ (w \in Workers /\ wpc[w] = "finished"))

====
